---- MODULE Spec2Model ----
(***************************************************************************)
(* Model of src/src/auto.ts: the automated signing loop of the signing     *)
(* tool.  startAutoSigning runs one retry-wrapped reconciliation           *)
(* (runWithRetry -> checkAndSign) at startup and one more at every tick of *)
(* a setInterval timer.  checkAndSign reads the current reward epoch,      *)
(* loads the checkpoint from the state file and walks the epochs           *)
(* max(last+1, current-4) .. current, signing what is missing and saving   *)
(* the checkpoint after every fully completed epoch.                       *)
(*                                                                         *)
(* JavaScript runs one callback at a time: a run only gives up control at  *)
(* an await.  The state shared between runs is the state file (read by     *)
(* loadState, written by saveState, both synchronous) and the chain.  An   *)
(* action below is the code a run executes from the resumption of one      *)
(* await that can see shared state to the next; the remote calls inside a  *)
(* phase are inputs of the action (their results are drawn with \E).       *)
(***************************************************************************)
EXTENDS Integers, Sequences, FiniteSets, TLC

(* ----------------------------- bounds --------------------------------- *)

\* number of reconciliation runs the scheduler starts (startup run + ticks)
MaxRuns == 3

\* the chain's reward epoch counter stays within 0 .. MaxEpoch
MaxEpoch == 2

\* the same two bounds for the runs that do not overlap (SpecSeq): enough
\* epochs for the look-back of the scan to cut the range
SeqRuns == 2

WideEpoch == 6

(* ------------------------- program constants -------------------------- *)

MAX_RETRIES == 3

\* the look-back of the scan: currentRewardEpochId - 4
LookBack == 4

\* the default checkpoint of loadState: { lastCompletedEpoch: -1 }
DefaultEpoch == -1

Runs == 1 .. MaxRuns

(* ------------------------ JavaScript values --------------------------- *)

Num(i) == [t |-> "num", n |-> i]

Undefined == [t |-> "undef", n |-> 0]

NaN == [t |-> "nan", n |-> 0]

IsNum(v) == v.t = "num"

\* state.lastCompletedEpoch + 1: a number plus one; undefined + 1 is NaN
JsPlusOne(v) == IF IsNum(v) THEN Num(v.n + 1) ELSE NaN

\* Math.max(a, b): NaN as soon as one argument is not a number
JsMax(a, b) ==
    IF IsNum(a) /\ IsNum(b) THEN (IF a.n >= b.n THEN a ELSE b) ELSE NaN

\* a <= b: false as soon as one side is NaN
JsLeq(a, b) == IsNum(a) /\ IsNum(b) /\ a.n <= b.n

(* --------------------------- the state file --------------------------- *)

FileRec(i) == [k |-> "rec", v |-> i]

FileOther(kind) == [k |-> kind, v |-> 0]

\* what the state file can hold when the process starts: no file, a file
\* that cannot be read, text that is not JSON, the JSON text null, JSON
\* without the lastCompletedEpoch field (such as {}), or a checkpoint record
FilesUpTo(top) ==
    { FileOther(kind) : kind \in {"missing", "unreadable", "garbage", "null", "norec"} }
        \cup { FileRec(i) : i \in DefaultEpoch .. top }

InitialFiles == FilesUpTo(MaxEpoch)

\* the value of a SigningState object
StateObj(v) == [t |-> "obj", lastCompletedEpoch |-> v]

StateNull == [t |-> "null", lastCompletedEpoch |-> Undefined]

\* JSON.parse of readable JSON text
JSONparse(f) ==
    CASE f.k = "rec"   -> StateObj(Num(f.v))
      [] f.k = "norec" -> StateObj(Undefined)
      [] OTHER         -> StateNull

loadState(f) ==
    IF f.k = "missing" THEN StateObj(Num(DefaultEpoch))
    ELSE IF f.k \in {"unreadable", "garbage"} THEN StateObj(Num(DefaultEpoch))
    ELSE JSONparse(f)

\* what fs.writeFileSync can do (line 35): write the whole text; throw
\* before the file is touched (it cannot be opened); throw after the open
\* has truncated it (flag 'w'), leaving an empty or partial text, which
\* is not JSON
WriteOutcomes == {"ok", "failed", "torn"}

\* lines 33-39: fs.writeFileSync(STATE_FILE, JSON.stringify(state)) inside
\* try/catch
saveState(f, epoch, write) ==
    CASE write = "ok"   -> FileRec(epoch)
      [] write = "torn" -> FileOther("garbage")
      [] OTHER          -> f

(* ------------------------------ errors -------------------------------- *)

\* what the reason and message fields of a thrown error can hold
ErrorTexts == {"absent", "epoch not ended", "other"}

Errors == [reason : ErrorTexts, message : ErrorTexts]

\* mutant of IsEpochNotEnded: the error's message is not looked at
IsEpochNotEndedReasonOnly(err) == err.reason = "epoch not ended"

\* error.reason?.includes('epoch not ended') || error.message?.includes(...)
IsEpochNotEnded(err) ==
    err.reason = "epoch not ended" \/ err.message = "epoch not ended"

(* ------------------------------ state --------------------------------- *)

VARIABLES
    file,        \* content of STATE_FILE
    chainEpoch,  \* the contract's current reward epoch id
    sched,       \* startAutoSigning: "boot", "startup" (awaiting the first
                 \* runWithRetry), "timer" (setInterval registered)
    started,     \* number of runWithRetry invocations started so far
    run,         \* per invocation: position and locals of runWithRetry and
                 \* checkAndSign, and the record of what the scan did
    lastEndFile  \* content of STATE_FILE when a run last ended

vars == <<file, chainEpoch, sched, started, run, lastEndFile>>

NoFile == FileOther("none")

\* an invocation that has not started, or has returned
IdleRun ==
    [ pc                      |-> "idle",
      retries                 |-> 0,
      currentRewardEpochId    |-> 0,
      lastCompletedEpoch      |-> Undefined,  \* state.lastCompletedEpoch
      lastFullyCompletedEpoch |-> Undefined,
      epochId                 |-> 0,
      epochNotEnded           |-> FALSE,
      epochFullyCompleted     |-> TRUE,
      result                  |-> "none",     \* what the await of line 136
                                              \* gets: "returned" or "threw"
      \* record of the invocation (not program state)
      attempts  |-> 0,         \* calls of checkAndSign by this runWithRetry
      delays    |-> 0,         \* RETRY_DELAY waits taken
      exit      |-> "none",    \* how runWithRetry returned: "returned"
                               \* (line 137) or "exhausted" (line 148)
      \* record of the scan (not program state)
      examined  |-> << >>,     \* epochs whose loop body was entered, in order
      iter      |-> 0,         \* the epoch the next three fields are about:
      uptime    |-> "none",    \*   how its uptime part went
      rewards   |-> "none",    \*   how its rewards part went
      save      |-> "none",    \*   its saveState call: "ok" or "failed"
      completed |-> Undefined, \* last epoch whose two facts were satisfied
      anySave   |-> FALSE,     \* saveState was called in this scan
      clean     |-> TRUE,      \* so far every fact was satisfied, nothing
                               \* threw and no save failed
      intact    |-> FALSE,     \* the file holds what this run loaded or last
                               \* passed to saveState
      follows   |-> NoFile,    \* the file as the previous run left it, when
                               \* this run loaded with no other run going
      end       |-> "none",    \* how checkAndSign ended
      endFile   |-> NoFile ]   \* the file when checkAndSign ended

InScan(me) == me.pc \in {"uptime", "rewards"}

Init ==
    /\ file \in InitialFiles
    /\ chainEpoch \in 0 .. MaxEpoch
    /\ sched = "boot"
    /\ started = 0
    /\ run = [r \in Runs |-> IdleRun]
    /\ lastEndFile = NoFile

(* ---------------------------- checkAndSign ---------------------------- *)

\* mutant of CatchAll: no catch around the body, the error escapes
CatchNothing(how) == IF how = "threw" THEN "threw" ELSE "returned"

\* lines 46, 126-128: whatever is thrown inside the body is caught and
\* logged, checkAndSign returns normally
CatchAll(how) == "returned"

\* checkAndSign ends (how: "complete", "notEnded", "rewardsFailed", or
\* "threw" when something was thrown inside the try of line 46)
Finish(me, how, f) ==
    [me EXCEPT !.pc = "checked", !.end = how, !.endFile = f,
               !.result = CatchAll(how),
               !.clean = me.clean /\ how = "complete"]

\* mutant of startEpochOf: no look-back limit
startEpochNoLookBack(last, current) == JsPlusOne(last)

\* mutant of startEpochOf: resumes at the checkpoint, not after it
startEpochFromLast(last, current) == JsMax(last, Num(current - LookBack))

\* line 52
startEpochOf(last, current) == JsMax(JsPlusOne(last), Num(current - LookBack))

\* mutant of LoopHead: the loop stops before the current epoch (e < current)
LoopHeadStrict(me, e, f) ==
    IF JsLeq(JsPlusOne(e), Num(me.currentRewardEpochId))
    THEN [me EXCEPT !.pc = "uptime", !.epochId = e.n,
                    !.epochNotEnded = FALSE, !.epochFullyCompleted = TRUE,
                    !.examined = Append(me.examined, e.n)]
    ELSE Finish(me, "complete", f)

\* the head of the for loop for epoch e (line 59): enter the body while
\* e <= current
LoopHead(me, e, f) ==
    IF JsLeq(e, Num(me.currentRewardEpochId))
    THEN [me EXCEPT !.pc = "uptime", !.epochId = e.n,
                    !.epochNotEnded = FALSE, !.epochFullyCompleted = TRUE,
                    !.examined = Append(me.examined, e.n)]
    ELSE Finish(me, "complete", f)

\* lines 48-59, from the resumption of getCurrentRewardEpochId().call()
BeginScan(me, current, f, follows) ==
    LET state == loadState(f) IN
    IF state.t = "null"
    THEN Finish([me EXCEPT !.currentRewardEpochId = current], "threw", f)
    ELSE LoopHead([me EXCEPT !.currentRewardEpochId = current,
                             !.lastCompletedEpoch = state.lastCompletedEpoch,
                             !.lastFullyCompletedEpoch = state.lastCompletedEpoch,
                             !.completed = state.lastCompletedEpoch,
                             !.intact = TRUE,
                             !.follows = follows],
                  startEpochOf(state.lastCompletedEpoch, current), f)

\* lines 78-88: the catch of signUptimeVote
OnUptimeError(me, err) ==
    IF IsEpochNotEnded(err)
    THEN [me EXCEPT !.epochNotEnded = TRUE, !.epochFullyCompleted = FALSE]
    ELSE [me EXCEPT !.epochFullyCompleted = FALSE]

\* mutant of AfterUptime: no break when the epoch has not ended
AfterUptimeNoBreak(me, f) == [me EXCEPT !.pc = "rewards"]

\* mutant of AfterUptime: any failure of signUptimeVote ends the scan
AfterUptimeBreakOnFailure(me, f) ==
    IF me.epochNotEnded THEN Finish(me, "notEnded", f)
    ELSE IF ~me.epochFullyCompleted THEN Finish(me, "rewardsFailed", f)
    ELSE [me EXCEPT !.pc = "rewards"]

\* lines 92-95
AfterUptime(me, f) ==
    IF me.epochNotEnded THEN Finish(me, "notEnded", f)
    ELSE [me EXCEPT !.pc = "rewards"]

UptimeCalls == {"readThrew", "present", "hashThrew", "signed", "signThrew"}

NoError == [reason |-> "absent", message |-> "absent"]

\* what the remote calls of the uptime part can do: signUptimeVote throws
\* one of Errors, the other outcomes carry no error
UptimeInputs ==
    { [call |-> c, err |-> NoError] : c \in UptimeCalls \ {"signThrew"} }
        \cup { [call |-> "signThrew", err |-> e] : e \in Errors }

\* for the record of the scan: what signUptimeVote threw
Thrown(err) ==
    IF "epoch not ended" \in {err.reason, err.message} THEN "notEnded" ELSE "failed"

\* the record of the scan turns to the loop body of me.epochId
NewBody(me, how) ==
    [me EXCEPT !.iter = me.epochId, !.uptime = how,
               !.rewards = "none", !.save = "none",
               !.clean = me.clean /\ how \in {"present", "signed"}]

\* the record of the scan notes how the rewards part went
Noted(me, how) ==
    [me EXCEPT !.rewards = how,
               !.clean = me.clean /\ how \in {"present", "signed"}]

\* lines 66-95: the uptime part of the loop body for me.epochId
uptimePart(me, call, err, f) ==
    CASE call = "readThrew" -> Finish(NewBody(me, "readThrew"), "threw", f)
      [] call = "present"   -> AfterUptime(NewBody(me, "present"), f)
      [] call = "hashThrew" -> Finish(NewBody(me, "hashThrew"), "threw", f)
      [] call = "signed"    -> AfterUptime(NewBody(me, "signed"), f)
      [] OTHER              -> AfterUptime(OnUptimeError(NewBody(me, Thrown(err)), err), f)

\* mutant of OnRewardsError: no break, the loop goes on to the next epoch
OnRewardsErrorContinue(me, f) ==
    LoopHead([me EXCEPT !.epochFullyCompleted = FALSE], Num(me.epochId + 1), f)

\* lines 110-116: the catch of getRewardsData / signRewards
OnRewardsError(me, f) ==
    Finish([me EXCEPT !.epochFullyCompleted = FALSE], "rewardsFailed", f)

\* mutant of ShouldSave: the checkpoint is saved whatever the epoch's outcome
ShouldSaveAlways(me) == TRUE

\* line 120
ShouldSave(me) == me.epochFullyCompleted

RewardsCalls == {"readThrew", "present", "signed", "fetchThrew", "signThrew"}

\* both facts of the epoch were satisfied in this iteration
FactsSatisfied(me) ==
    me.uptime \in {"present", "signed"} /\ me.rewards \in {"present", "signed"}

\* mutant of AfterSave: saveState has no catch, a failed write is thrown
\* into the body of checkAndSign
AfterSaveRethrow(me, write, f1) ==
    IF write = "ok" THEN LoopHead(me, Num(me.epochId + 1), f1)
    ELSE Finish(me, "threw", f1)

\* lines 36-38, 59: saveState has returned, whatever the write did; the
\* loop goes on with epochId++
AfterSave(me, write, f1) == LoopHead(me, Num(me.epochId + 1), f1)

\* lines 119-124 and the loop's epochId++: the run after the rewards part
\* went well, given the file f1 the iteration leaves
EndOfBody(me, f1, write) ==
    LET noted == [me EXCEPT !.completed =
                      IF FactsSatisfied(me) THEN Num(me.epochId) ELSE me.completed]
    IN IF ShouldSave(me)
       THEN AfterSave([noted EXCEPT
                          !.lastFullyCompletedEpoch = Num(me.epochId),
                          !.save = IF write = "ok" THEN "ok" ELSE "failed",
                          !.anySave = TRUE,
                          !.clean = me.clean /\ write = "ok",
                          !.intact = (write = "ok")],
                      write, f1)
       ELSE LoopHead(noted, Num(me.epochId + 1), f1)

\* the file after the loop body of me.epochId
FileAfterBody(me, f, call, write) ==
    IF call \in {"present", "signed"} /\ ShouldSave(me)
    THEN saveState(f, me.epochId, write)
    ELSE f

\* lines 98-124: the rewards part of the loop body for me.epochId
rewardsPart(me, call, f, write) ==
    CASE call = "readThrew" -> Finish(Noted(me, "readThrew"), "threw", f)
      [] call \in {"present", "signed"} ->
            EndOfBody(Noted(me, call), FileAfterBody(me, f, call, write), write)
      [] OTHER -> OnRewardsError(Noted(me, call), f)

(* ----------------------------- actions -------------------------------- *)

Others(r) == Runs \ {r}

\* runWithRetry is entered: retries = 0 and checkAndSign awaits
\* initializeFlareSystemsManager (lines 132-136, 46-47)
Enter == [IdleRun EXCEPT !.pc = "init", !.attempts = 1]

\* runWithRetry has returned: its locals are gone, the record of the
\* invocation stays
Returned(me, how) ==
    [IdleRun EXCEPT !.pc = "done", !.retries = me.retries,
                    !.result = me.result,
                    !.attempts = me.attempts, !.delays = me.delays,
                    !.exit = how]

\* line 134: while (retries < MAX_RETRIES)
KeepTrying(retries) == retries < MAX_RETRIES

\* mutant of ShouldDelay: the delay is taken after every failed attempt
ShouldDelayAlways(retries) == TRUE

\* line 141: if (retries < MAX_RETRIES)
ShouldDelay(retries) == retries < MAX_RETRIES

\* the while loop comes round (line 134): checkAndSign is called again,
\* or the loop ends and runWithRetry returns after line 148
NextAttempt(me) ==
    IF KeepTrying(me.retries)
    THEN [Enter EXCEPT !.retries = me.retries, !.attempts = me.attempts + 1,
                       !.delays = me.delays]
    ELSE Returned(me, "exhausted")

\* lines 136-145: the await of checkAndSign resumes; a normal return
\* returns (137), a throw is counted (139) and followed by the delay (143)
\* or directly by the loop head
AfterAttempt(me) ==
    IF me.result = "returned" THEN Returned(me, "returned")
    ELSE LET counted == [me EXCEPT !.retries = me.retries + 1] IN
         IF ShouldDelay(counted.retries)
         THEN [counted EXCEPT !.pc = "delay", !.delays = me.delays + 1]
         ELSE NextAttempt(counted)

\* one step of runWithRetry: after an attempt, or after the delay
runWithRetryStep(me) ==
    IF me.pc = "checked" THEN AfterAttempt(me) ELSE NextAttempt(me)

\* startAutoSigning (lines 151-156): the startup run
Startup ==
    /\ sched = "boot"
    /\ sched' = "startup"
    /\ started' = 1
    /\ run' = [run EXCEPT ![1] = Enter]
    /\ UNCHANGED <<file, chainEpoch, lastEndFile>>

\* mutant of Tick: a tick starts a run only when no run is in progress
TickExclusive ==
    /\ sched = "timer"
    /\ started < MaxRuns
    /\ \A r \in Runs : run[r].pc \in {"idle", "done"}
    /\ started' = started + 1
    /\ run' = [run EXCEPT ![started + 1] = Enter]
    /\ UNCHANGED <<file, chainEpoch, sched, lastEndFile>>

\* a tick of the setInterval timer (lines 159-161)
Tick ==
    /\ sched = "timer"
    /\ started < MaxRuns
    /\ started' = started + 1
    /\ run' = [run EXCEPT ![started + 1] = Enter]
    /\ UNCHANGED <<file, chainEpoch, sched, lastEndFile>>

\* line 47: initializeFlareSystemsManager resolves or rejects
Initialize(r) ==
    /\ run[r].pc = "init"
    /\ \E ok \in BOOLEAN :
          /\ run' = [run EXCEPT ![r] =
                        IF ok THEN [run[r] EXCEPT !.pc = "epoch"]
                        ELSE Finish(run[r], "threw", file)]
          /\ lastEndFile' = IF ok THEN lastEndFile ELSE file
    /\ UNCHANGED <<file, chainEpoch, sched, started>>

\* the file as the previous run left it, for a run that loads while no
\* other run is going
Follows(r) ==
    IF \A q \in Others(r) : run[q].pc \in {"idle", "done"} THEN lastEndFile ELSE NoFile

\* lines 48-59: getCurrentRewardEpochId resolves (or rejects), the state
\* is loaded and the loop is entered
ReadEpochAndLoad(r) ==
    /\ run[r].pc = "epoch"
    /\ \E ok \in BOOLEAN :
          /\ run' = [run EXCEPT ![r] =
                        IF ok THEN BeginScan(run[r], chainEpoch, file, Follows(r))
                        ELSE Finish(run[r], "threw", file)]
          /\ lastEndFile' = IF run'[r].pc = "checked" THEN file ELSE lastEndFile
    /\ UNCHANGED <<file, chainEpoch, sched, started>>

\* lines 66-95
UptimeStep(r) ==
    /\ run[r].pc = "uptime"
    /\ \E in \in UptimeInputs :
          /\ run' = [run EXCEPT ![r] = uptimePart(run[r], in.call, in.err, file)]
          /\ lastEndFile' = IF run'[r].pc = "checked" THEN file ELSE lastEndFile
    /\ UNCHANGED <<file, chainEpoch, sched, started>>

\* a successful write by run r puts the file out of step with what the
\* other scanning runs loaded or saved
Overwritten(r, wrote) ==
    [q \in Runs |->
        IF q # r /\ wrote /\ InScan(run[q])
        THEN [run[q] EXCEPT !.intact = FALSE]
        ELSE run[q]]

\* lines 98-124
RewardsStep(r) ==
    /\ run[r].pc = "rewards"
    /\ \E call \in RewardsCalls, write \in WriteOutcomes :
          /\ file' = FileAfterBody(run[r], file, call, write)
          /\ run' = [Overwritten(r, file' # file) EXCEPT ![r] =
                        rewardsPart(run[r], call, file, write)]
          /\ lastEndFile' = IF run'[r].pc = "checked" THEN file' ELSE lastEndFile
    /\ UNCHANGED <<chainEpoch, sched, started>>

\* lines 134-148: runWithRetry goes on after an attempt or after the
\* delay; the startup invocation's return lets startAutoSigning register
\* the timer (159)
RunWithRetryReturn(r) ==
    /\ run[r].pc \in {"checked", "delay"}
    /\ run' = [run EXCEPT ![r] = runWithRetryStep(run[r])]
    /\ sched' = IF r = 1 /\ run'[r].pc = "done" THEN "timer" ELSE sched
    /\ UNCHANGED <<file, chainEpoch, started, lastEndFile>>

\* the contract moves to the next reward epoch
AdvanceEpoch ==
    /\ chainEpoch < MaxEpoch
    /\ chainEpoch' = chainEpoch + 1
    /\ UNCHANGED <<file, sched, started, run, lastEndFile>>

Next ==
    \/ Startup
    \/ Tick
    \/ AdvanceEpoch
    \/ \E r \in Runs : Initialize(r)
    \/ \E r \in Runs : ReadEpochAndLoad(r)
    \/ \E r \in Runs : UptimeStep(r)
    \/ \E r \in Runs : RewardsStep(r)
    \/ \E r \in Runs : RunWithRetryReturn(r)

Spec == Init /\ [][Next]_vars

(* ------------- runs that end before the next tick (no overlap) -------- *)

InitSeq ==
    /\ file \in FilesUpTo(WideEpoch)
    /\ chainEpoch \in 0 .. WideEpoch
    /\ sched = "boot"
    /\ started = 0
    /\ run = [r \in Runs |-> IdleRun]
    /\ lastEndFile = NoFile

\* a tick that finds every earlier invocation returned
TickSeq ==
    /\ sched = "timer"
    /\ started < SeqRuns
    /\ started < MaxRuns
    /\ \A r \in Runs : run[r].pc \in {"idle", "done"}
    /\ started' = started + 1
    /\ run' = [run EXCEPT ![started + 1] = Enter]
    /\ UNCHANGED <<file, chainEpoch, sched, lastEndFile>>

AdvanceWide ==
    /\ chainEpoch < WideEpoch
    /\ chainEpoch' = chainEpoch + 1
    /\ UNCHANGED <<file, sched, started, run, lastEndFile>>

NextSeq ==
    \/ Startup
    \/ TickSeq
    \/ AdvanceWide
    \/ \E r \in Runs : Initialize(r)
    \/ \E r \in Runs : ReadEpochAndLoad(r)
    \/ \E r \in Runs : UptimeStep(r)
    \/ \E r \in Runs : RewardsStep(r)
    \/ \E r \in Runs : RunWithRetryReturn(r)

SpecSeq == InitSeq /\ [][NextSeq]_vars

(* runWithRetry around a routine that may throw: what the routine does is
   left open, its call ends by returning or by throwing.  The scheduler
   is the one of the program. *)
InitRetry ==
    /\ file = FileOther("missing")
    /\ chainEpoch = 0
    /\ sched = "boot"
    /\ started = 0
    /\ run = [r \in Runs |-> IdleRun]
    /\ lastEndFile = NoFile

\* line 136: the awaited call of the routine settles
RoutineEnds(r) ==
    /\ run[r].pc = "init"
    /\ \E res \in {"returned", "threw"} :
          run' = [run EXCEPT ![r] = [run[r] EXCEPT !.pc = "checked",
                                                   !.result = res]]
    /\ UNCHANGED <<file, chainEpoch, sched, started, lastEndFile>>

NextRetry ==
    \/ Startup
    \/ Tick
    \/ \E r \in Runs : RoutineEnds(r)
    \/ \E r \in Runs : RunWithRetryReturn(r)

SpecRetry == InitRetry /\ [][NextRetry]_vars

(* =============================== claims ============================== *)

Loaded(me) == IsNum(me.lastCompletedEpoch)

\* the checkpoint a file stands for: what loadState reads from it
Persisted(f) == loadState(f).lastCompletedEpoch

LastOf(seq) == seq[Len(seq)]

(* C1: over the runs of one process lifetime the lastCompletedEpoch in the
   state file never decreases: every write of a checkpoint record over a
   checkpoint record writes a value greater than or equal to the old one. *)
C1_CheckpointNeverDecreases ==
    [][(file.k = "rec" /\ file'.k = "rec") => file'.v >= file.v]_vars

RewardsFailures == {"fetchThrew", "signThrew"}

(* C2 as stated: when getRewardsData or signRewards throws for epoch e, no
   epoch greater than e is examined in that run, e is not saved, and the
   checkpoint persisted at the end of the run is the last epoch before e
   fully completed in the run (or the loaded value). *)
C2_PersistedAfterRewardsFailure ==
    \A r \in Runs :
        run[r].rewards \in RewardsFailures =>
            /\ run[r].pc = "checked"
            /\ LastOf(run[r].examined) = run[r].iter
            /\ run[r].save = "none"
            /\ Persisted(run[r].endFile) = run[r].completed

(* C2 amended: when getRewardsData or signRewards throws for epoch e, the
   scan ends there: no epoch greater than e is examined, saveState is not
   called for e, the value the run last passed to saveState (the loaded
   value if it made no call) is the last epoch before e fully completed in
   the run, and the state file holds that value at the end of the run
   whenever the run's last write succeeded and no other run has written the
   file since. *)
C2_HaltOnRewardsFailure ==
    \A r \in Runs :
        run[r].rewards \in RewardsFailures =>
            /\ run[r].pc = "checked"
            /\ run[r].end = "rewardsFailed"
            /\ LastOf(run[r].examined) = run[r].iter
            /\ run[r].iter = run[r].epochId
            /\ run[r].save = "none"
            /\ run[r].lastFullyCompletedEpoch = run[r].completed
            /\ IsNum(run[r].completed) /\ run[r].completed.n < run[r].iter
            /\ run[r].intact => Persisted(run[r].endFile) = run[r].completed

\* a scan completed an epoch, saved it, and then failed on the rewards of
\* the next one
C2_Witness ==
    \E r \in Runs :
        /\ run[r].rewards \in RewardsFailures
        /\ run[r].anySave
        /\ run[r].intact
        /\ run[r].completed = Num(run[r].iter - 1)
        /\ run[r].endFile = FileRec(run[r].iter - 1)

(* C3: within one scan the epochs are examined in strictly increasing
   order, each at most once, and once signUptimeVote for epoch e throws an
   error whose reason or message contains 'epoch not ended' the scan ends:
   no epoch greater than e is examined, nothing more is read, submitted or
   saved. *)
C3_OrderAndHaltOnNotEnded ==
    \A r \in Runs :
        /\ \A i, j \in 1 .. Len(run[r].examined) :
              i < j => run[r].examined[i] < run[r].examined[j]
        /\ run[r].uptime = "notEnded" =>
              /\ run[r].pc = "checked"
              /\ LastOf(run[r].examined) = run[r].iter
              /\ run[r].rewards = "none"
              /\ run[r].save = "none"

\* a scan examined two epochs and was told at the second that the epoch
\* has not ended, with more epochs still ahead
C3_Witness ==
    \E r \in Runs :
        /\ run[r].uptime = "notEnded"
        /\ Len(run[r].examined) >= 2
        /\ run[r].iter < run[r].currentRewardEpochId

\* max(last + 1, current - 4) on integers
ScanStart(last, current) ==
    IF last + 1 >= current - LookBack THEN last + 1 ELSE current - LookBack

(* C4: every epoch e a run examines satisfies
   max(last+1, current-4) <= e <= current, the first one examined is
   max(last+1, current-4), at most 5 epochs are examined, and when
   last+1 > current the loop body runs zero times: no hash is read, no
   signature is submitted and the state file is not written. *)
C4_ScanRange ==
    \A r \in Runs :
        LET me   == run[r]
            last == me.lastCompletedEpoch.n
            cur  == me.currentRewardEpochId
        IN  /\ ~Loaded(me) => me.examined = << >>
            /\ Loaded(me) =>
                  /\ Len(me.examined) <= LookBack + 1
                  /\ \A i \in 1 .. Len(me.examined) :
                        ScanStart(last, cur) <= me.examined[i] /\ me.examined[i] <= cur
                  /\ me.examined # << >> => me.examined[1] = ScanStart(last, cur)
                  /\ last + 1 > cur =>
                        /\ me.pc = "checked"
                        /\ me.examined = << >>
                        /\ me.uptime = "none" /\ me.rewards = "none"
                        /\ ~me.anySave

\* a scan that the look-back cut: it started at current-4, above last+1,
\* and examined 5 epochs
C4_Witness ==
    \E r \in Runs :
        /\ Loaded(run[r])
        /\ run[r].pc = "checked"
        /\ Len(run[r].examined) = LookBack + 1
        /\ run[r].examined[1] > run[r].lastCompletedEpoch.n + 1
        /\ run[r].examined[1] = run[r].currentRewardEpochId - LookBack

(* C5: a run that follows another run, with nothing else happening to the
   state file in between, examines no epoch e <= the lastCompletedEpoch the
   first run left in the file: it reads no hash and submits no uptime vote
   and no rewards signature for such an epoch. *)
C5_NoResubmission ==
    \A r \in Runs :
        run[r].follows.k = "rec" =>
            /\ \A i \in 1 .. Len(run[r].examined) :
                  run[r].examined[i] > run[r].follows.v
            /\ run[r].uptime # "none" => run[r].iter > run[r].follows.v

\* a second run found a checkpoint left by the first and signed both
\* facts of a later epoch
C5_Witness ==
    \E r \in Runs :
        /\ run[r].follows.k = "rec"
        /\ run[r].follows.v >= 0
        /\ run[r].uptime = "signed"
        /\ run[r].rewards = "signed"
        /\ run[r].iter = run[r].follows.v + 1

Satisfied == {"present", "signed"}

(* C6: the checkpoint is written only for fully completed epochs: a run
   calls saveState for epoch e only when, in that loop iteration, the
   uptime fact was satisfied (hash present, or signUptimeVote returned) and
   the rewards fact was satisfied (hash present, or getRewardsData and
   signRewards returned); and every change of the state file is such a
   call. *)
C6_SaveOnlyCompleted ==
    [][ /\ \A r \in Runs :
              run'[r].save # "none" =>
                  /\ run'[r].uptime \in Satisfied
                  /\ run'[r].rewards \in Satisfied
                  /\ run'[r].lastFullyCompletedEpoch = Num(run'[r].iter)
        /\ file' # file =>
              \E r \in Runs :
                  /\ run[r].pc = "rewards"
                  /\ run'[r].save # "none"
                  /\ run'[r].iter = run[r].epochId
                  /\ file' = IF run'[r].save = "ok"
                             THEN FileRec(run'[r].iter)
                             ELSE FileOther("garbage") ]_vars

\* an epoch whose two signatures were submitted in the iteration was saved
C6_Witness ==
    \E r \in Runs :
        /\ run[r].save = "ok"
        /\ run[r].uptime = "signed"
        /\ run[r].rewards = "signed"
        /\ file = FileRec(run[r].iter)

\* the sequence lo, lo+1, ..., hi
Range(lo, hi) == [i \in 1 .. (hi - lo + 1) |-> lo + i - 1]

(* C7 as stated: when every epoch from max(last+1, current-4) to current
   has each fact present or successfully submitted (nothing throws, the
   saves succeed), the checkpoint persisted at the end of the run equals
   current (stated here for loaded checkpoints that are integers). *)
C7_CatchUpReachesCurrent ==
    \A r \in Runs :
        (run[r].pc = "checked" /\ run[r].end = "complete" /\ run[r].clean
            /\ Loaded(run[r])) =>
            Persisted(run[r].endFile) = Num(run[r].currentRewardEpochId)

(* C7 amended: when the loaded checkpoint is an integer last <= current and
   every epoch from start = max(last+1, current-4) to current has each fact
   present or successfully submitted (nothing throws, the saves succeed),
   the run examines every epoch start..current and the checkpoint in the
   state file at the end of the run equals current. *)
C7_FullCatchUp ==
    \A r \in Runs :
        LET me   == run[r]
            last == me.lastCompletedEpoch.n
            cur  == me.currentRewardEpochId
        IN  (me.pc = "checked" /\ me.end = "complete" /\ me.clean
                /\ Loaded(me) /\ last <= cur) =>
                /\ me.examined = Range(ScanStart(last, cur), cur)
                /\ Persisted(me.endFile) = Num(cur)

\* scenario A: last = -1, current = 0, both submissions succeed, the
\* checkpoint becomes 0
C7_Witness ==
    \E r \in Runs :
        /\ run[r].pc = "checked" /\ run[r].end = "complete" /\ run[r].clean
        /\ run[r].lastCompletedEpoch = Num(-1)
        /\ run[r].currentRewardEpochId = 0
        /\ run[r].uptime = "signed" /\ run[r].rewards = "signed"
        /\ run[r].endFile = FileRec(0)

(* C8 as stated: when signUptimeVote for e throws 'epoch not ended', the
   rewards of e are not read, fetched or submitted and the checkpoint
   persisted after the run is the last epoch fully completed before e (the
   loaded value when there is none). *)
C8_PersistedAfterNotEnded ==
    \A r \in Runs :
        run[r].uptime = "notEnded" =>
            /\ run[r].pc = "checked"
            /\ run[r].rewards = "none"
            /\ Persisted(run[r].endFile) = run[r].completed

(* C8 amended: when signUptimeVote for e throws 'epoch not ended', the
   rewards of e are not read, fetched or submitted, saveState is not called
   for e, the value the run last passed to saveState (the loaded value if
   it made no call) is the last epoch fully completed before e, and the
   state file holds that value at the end of the run whenever the run's
   last write succeeded and no other run has written the file since. *)
C8_EpochNotEnded ==
    \A r \in Runs :
        run[r].uptime = "notEnded" =>
            /\ run[r].pc = "checked"
            /\ run[r].end = "notEnded"
            /\ run[r].iter = run[r].epochId
            /\ run[r].rewards = "none"
            /\ run[r].save = "none"
            /\ run[r].lastFullyCompletedEpoch = run[r].completed
            /\ IsNum(run[r].completed) /\ run[r].completed.n < run[r].iter
            /\ run[r].intact => Persisted(run[r].endFile) = run[r].completed

\* scenario C: last = 0, the uptime vote of epoch 1 is refused with
\* 'epoch not ended' while later epochs are still ahead, the checkpoint
\* stays 0
C8_Witness ==
    \E r \in Runs :
        /\ run[r].uptime = "notEnded"
        /\ run[r].lastCompletedEpoch = Num(0)
        /\ run[r].iter = 1
        /\ run[r].currentRewardEpochId > 1
        /\ run[r].intact
        /\ run[r].endFile = FileRec(0)

(* C9 as stated: when the loaded checkpoint equals the current epoch, a run
   attempts no submission, the checkpoint stays at last, and the state file
   is re-saved with the same value. *)
C9_CaughtUpResaves ==
    \A r \in Runs :
        (run[r].pc = "checked" /\ Loaded(run[r])
            /\ run[r].lastCompletedEpoch.n = run[r].currentRewardEpochId) =>
            /\ run[r].uptime = "none" /\ run[r].rewards = "none"
            /\ run[r].endFile = FileRec(run[r].currentRewardEpochId)
            /\ run[r].anySave

(* C9 amended: when the loaded checkpoint equals the current epoch, a run
   examines no epoch (it reads no hash and attempts no submission), it does
   not call saveState, and the state file keeps the checkpoint last. *)
C9_CaughtUp ==
    \A r \in Runs :
        (run[r].pc = "checked" /\ Loaded(run[r])
            /\ run[r].lastCompletedEpoch.n = run[r].currentRewardEpochId) =>
            /\ run[r].end = "complete"
            /\ run[r].examined = << >>
            /\ run[r].uptime = "none" /\ run[r].rewards = "none"
            /\ ~run[r].anySave
            /\ run[r].endFile = FileRec(run[r].currentRewardEpochId)

\* scenario B: last = 2, current = 2, the run ends with the file as it was
C9_Witness ==
    \E r \in Runs :
        /\ run[r].pc = "checked"
        /\ run[r].lastCompletedEpoch = Num(2)
        /\ run[r].currentRewardEpochId = 2
        /\ run[r].end = "complete"
        /\ run[r].endFile = FileRec(2)

(* C10: loadState never throws, and for every state file that is not a
   well-formed record (missing, unreadable, not JSON, JSON that is not a
   record with an integer lastCompletedEpoch) it returns exactly
   { lastCompletedEpoch: -1 }: a run that gets past loadState on such a
   file scans from the checkpoint -1. *)
C10_LoadStateDefault ==
    [][ \A r \in Runs :
            (run[r].pc = "epoch" /\ run'[r].pc # "epoch"
                /\ run'[r].end # "threw" /\ file.k # "rec") =>
                run'[r].lastCompletedEpoch = Num(DefaultEpoch) ]_vars

\* the step is one of run r (a step of another run leaves r's pc alone)
StepOf(r) == run'[r].pc # run[r].pc

\* in this step of run r a call made by checkAndSign threw: one that ends
\* the scan through the catch of line 126, signUptimeVote, or
\* getRewardsData / signRewards
ThrewIn(r) ==
    /\ StepOf(r)
    /\ \/ run[r].pc \in {"init", "epoch", "uptime", "rewards"}
             /\ run'[r].end = "threw"
       \/ run[r].pc = "uptime" /\ run'[r].uptime \in {"notEnded", "failed"}
       \/ run[r].pc = "rewards" /\ run'[r].rewards \in RewardsFailures

(* C11: checkAndSign never propagates an exception: whichever call throws
   (binding initialisation, getCurrentRewardEpochId, the uptimeVoteHash
   read, getUptimeVoteHash, signUptimeVote, the rewardsHash read,
   getRewardsData, signRewards), the run goes on or checkAndSign returns
   normally to runWithRetry, and the step in which the call throws leaves
   the state file as it was: the file keeps the last epoch saved before
   the failure. *)
C11_NeverPropagates ==
    [][ \A r \in Runs :
            ThrewIn(r) =>
                /\ file' = file
                /\ run'[r].pc \in {"rewards", "checked"}
                /\ run'[r].result # "threw"
                /\ run'[r].pc = "checked" =>
                       /\ run'[r].result = "returned"
                       /\ run'[r].endFile = file ]_vars

\* a scan saved an epoch, then getUptimeVoteHash threw for the next one:
\* checkAndSign has returned normally and the file holds the saved epoch
C11_Witness ==
    \E r \in Runs :
        /\ run[r].pc = "checked"
        /\ run[r].end = "threw"
        /\ run[r].uptime = "hashThrew"
        /\ run[r].result = "returned"
        /\ run[r].anySave
        /\ IsNum(run[r].completed)
        /\ run[r].iter = run[r].completed.n + 1
        /\ file = FileRec(run[r].completed.n)
        /\ run[r].endFile = file

(* The scheduling the code gives: startAutoSigning runs, a registered
   timer keeps firing, and a continuation whose awaited promise has
   settled is run by the event loop.  Nothing makes a remote call return
   (no call has a timeout), so the steps that wait for one are not fair. *)
SpecFair ==
    /\ Spec
    /\ WF_vars(Startup)
    /\ WF_vars(Tick)
    /\ \A r \in Runs : WF_vars(RunWithRetryReturn(r))

(* C12: startAutoSigning starts one retry-wrapped run at startup, before
   any interval has elapsed, and thereafter a new one at every tick of the
   timer, indefinitely: under a fair timer ever more runs are started (in
   the model, all MaxRuns of them). *)
C12_RunsKeepStarting ==
    /\ [][started' # started =>
              IF started = 0 THEN sched = "boot" ELSE sched = "timer"]_vars
    /\ <>(started = MaxRuns)

(* C13: the checkpoint skips no epoch within a scan: whenever a run saves
   lastCompletedEpoch = e, every epoch from the scan's start up to e - 1,
   examined earlier in the scan, had both its facts satisfied; an epoch
   whose uptime vote failed with a generic error is never left below the
   saved checkpoint.  (The epochs are examined in order and the scan ends
   at the first rewards failure, so it is enough that the epoch before e
   was completed.) *)
C13_NoSkippedEpoch ==
    [][ \A r \in Runs :
            (run[r].pc = "rewards" /\ run'[r].save # "none") =>
                \/ run[r].epochId = run[r].examined[1]
                \/ run[r].completed = Num(run[r].epochId - 1) ]_vars

(* C14: when signUptimeVote throws for epoch e an error that does not
   contain 'epoch not ended', the run still reads the rewards hash of e
   (and fetches and submits the rewards when it is empty), and it does not
   save e as the checkpoint in that run, even if the rewards step
   succeeds; the scan then goes on as after any epoch. *)
C14_GenericUptimeFailure ==
    \A r \in Runs :
        run[r].uptime = "failed" =>
            /\ run[r].save = "none"
            /\ run[r].lastFullyCompletedEpoch # Num(run[r].iter)
            /\ run[r].rewards = "none" =>
                   run[r].pc = "rewards" /\ run[r].epochId = run[r].iter
            /\ run[r].rewards \in Satisfied =>
                   \/ run[r].pc = "uptime" /\ run[r].epochId = run[r].iter + 1
                   \/ run[r].pc = "checked" /\ run[r].end = "complete"
                         /\ run[r].iter = run[r].currentRewardEpochId

\* after the generic failure the rewards of the epoch were submitted, the
\* epoch was not saved and the scan is at the next epoch
C14_Witness ==
    \E r \in Runs :
        /\ run[r].uptime = "failed"
        /\ run[r].rewards = "signed"
        /\ run[r].save = "none"
        /\ run[r].pc = "uptime"
        /\ run[r].epochId = run[r].iter + 1
        /\ file # FileRec(run[r].iter)

(* C15: per-epoch persistence survives a crash: the save for epoch e
   happens before any read or submission for epoch e + 1, so, saves
   succeeding, whenever a scan is at a later epoch after a save the state
   file is not behind the scan's in-memory lastFullyCompletedEpoch: if the
   process stopped there, the file would hold the highest epoch the scan
   has completed. *)
C15_FileNotBehindScan ==
    \A r \in Runs :
        (/\ run[r].pc \in {"uptime", "rewards"}
         /\ run[r].save = "ok"
         /\ file.k = "rec") =>           \* the last write was a whole one
            /\ run[r].epochId = run[r].iter + 1
            /\ run[r].lastFullyCompletedEpoch = Num(run[r].iter)
            /\ file.v >= run[r].iter

(* C16: for a routine that may throw, runWithRetry calls it at most
   MAX_RETRIES = 3 times per invocation, stops at the first call that
   returns normally, waits the retry delay after a failed attempt only
   when another attempt remains (no delay after the third failure), and
   always returns normally, also after the attempts are exhausted. *)
C16_RetryBound ==
    \A r \in Runs :
        LET me == run[r] IN
        /\ me.pc \in {"idle", "init", "checked", "delay", "done"}
        /\ me.attempts <= MAX_RETRIES
        /\ me.pc \in {"init", "checked"} =>
               /\ me.delays = me.attempts - 1
               /\ me.retries = me.attempts - 1
        /\ me.pc = "delay" =>
               /\ me.result = "threw"
               /\ me.delays = me.attempts
               /\ me.retries = me.attempts
               /\ me.attempts < MAX_RETRIES
        /\ me.pc = "done" =>
               \/ /\ me.exit = "returned"
                  /\ me.result = "returned"
                  /\ me.retries = me.attempts - 1
                  /\ me.delays = me.attempts - 1
               \/ /\ me.exit = "exhausted"
                  /\ me.result = "threw"
                  /\ me.attempts = MAX_RETRIES
                  /\ me.retries = MAX_RETRIES
                  /\ me.delays = MAX_RETRIES - 1

\* an invocation whose three attempts all threw has returned, after two
\* delays, while another returned at its second attempt
C16_Witness ==
    \E r, q \in Runs :
        /\ run[r].pc = "done"
        /\ run[r].exit = "exhausted"
        /\ run[r].attempts = MAX_RETRIES
        /\ run[r].delays = MAX_RETRIES - 1
        /\ run[q].pc = "done"
        /\ run[q].exit = "returned"
        /\ run[q].attempts = 2
        /\ run[q].delays = 1

(* C17: in the program as composed, where the routine is checkAndSign,
   each invocation of runWithRetry calls checkAndSign exactly once: the
   retry counter never leaves 0, the retry delay is never taken and the
   'Max retries reached' exit is unreachable, whatever the calls made by
   checkAndSign do. *)
C17_OneAttempt ==
    \A r \in Runs :
        /\ run[r].retries = 0
        /\ run[r].delays = 0
        /\ run[r].pc # "delay"
        /\ run[r].exit # "exhausted"
        /\ run[r].result # "threw"
        /\ run[r].attempts = IF run[r].pc = "idle" THEN 0 ELSE 1

\* a call threw inside checkAndSign, and runWithRetry has returned after
\* that one attempt
C17_Witness ==
    \E r \in Runs :
        /\ run[r].pc = "done"
        /\ run[r].exit = "returned"
        /\ run[r].attempts = 1
        /\ run[r].retries = 0
        /\ \E q \in Runs :
              /\ run[q].pc = "checked"
              /\ run[q].end = "threw"
              /\ run[q].attempts = 1

\* a run started by the timer that has not returned
TimerRunInProgress(r) == r >= 2 /\ run[r].pc \notin {"idle", "done"}

(* C18: overlapping runs are not prevented: once the timer is registered,
   a tick starts a new run whether or not an earlier timer-fired run is
   still in progress, and a run that is about to save is never held back
   by another run (no lock).  The witness is the state the claim says is
   reachable: two runs in progress that loaded the same checkpoint, both
   submitted a signature for the same epoch and both wrote the file. *)
C18_OverlapNotPrevented ==
    /\ (\E q \in Runs : TimerRunInProgress(q)) /\ started < MaxRuns
           => ENABLED Tick
    /\ \A r \in Runs : run[r].pc = "rewards" => ENABLED RewardsStep(r)

C18_Witness ==
    \E r, q \in Runs :
        /\ r # q
        /\ TimerRunInProgress(r) /\ InScan(run[r])
        /\ TimerRunInProgress(q) /\ InScan(run[q])
        /\ IsNum(run[r].lastCompletedEpoch)
        /\ run[r].lastCompletedEpoch = run[q].lastCompletedEpoch
        /\ run[r].iter = run[q].iter
        /\ run[r].uptime = "signed" /\ run[q].uptime = "signed"
        /\ run[r].rewards = "signed" /\ run[q].rewards = "signed"
        /\ run[r].save = "ok" /\ run[q].save = "ok"
        /\ file = FileRec(run[r].iter)

\* the run is awaiting a remote call, which may never settle
AwaitingRemote(r) == run[r].pc \in {"init", "epoch", "uptime", "rewards"}

(* C19: a hung remote call does not stop the scheduler: while a call
   inside any run, the startup run included, has not returned, the timer
   can still fire and start a new run beside the stalled one (as long as
   the model has a run left to start). *)
C19_TickBesideStalledRun ==
    \A r \in Runs :
        (AwaitingRemote(r) /\ started < MaxRuns) => ENABLED Tick

\* in this step run r called saveState and the write failed
SaveFailedIn(r) == run[r].pc = "rewards" /\ run'[r].save = "failed"

\* run r goes on after the save for its epoch as it does after a
\* successful one: the epoch is the in-memory checkpoint and the loop is
\* at the next epoch, or past the current one and checkAndSign returns
GoesOnAfterSave(r) ==
    /\ run'[r].lastFullyCompletedEpoch = Num(run[r].epochId)
    /\ IF run[r].epochId < run[r].currentRewardEpochId
       THEN run'[r].pc = "uptime" /\ run'[r].epochId = run[r].epochId + 1
       ELSE /\ run'[r].pc = "checked"
            /\ run'[r].end = "complete"
            /\ run'[r].result = "returned"

(* C20 as stated: a failed save is not fatal: when saveState fails for
   epoch e it returns without throwing, the state file keeps its previous
   content, and the scan continues with epoch e + 1 exactly as if the save
   had succeeded. *)
C20_FailedSaveKeepsFile ==
    [][ \A r \in Runs :
            SaveFailedIn(r) => file' = file /\ GoesOnAfterSave(r) ]_vars

(* C20, amended: when saveState fails for epoch e it returns without
   throwing, the state file keeps its previous content or is left
   truncated by the failed write (loadState then reads the default -1),
   and the scan continues with epoch e + 1 exactly as if the save had
   succeeded; a successful save writes the epoch it is called for. *)
C20_FailedSaveNotFatal ==
    [][ \A r \in Runs :
            /\ SaveFailedIn(r) =>
                   /\ file' = file \/ file' = FileOther("garbage")
                   /\ file' # file =>
                          Persisted(file') = Num(DefaultEpoch)
                   /\ GoesOnAfterSave(r)
            /\ (run[r].pc = "rewards" /\ run'[r].save = "ok") =>
                   /\ file' = FileRec(run[r].epochId)
                   /\ GoesOnAfterSave(r) ]_vars

\* the write for an epoch failed and left the file truncated; the scan is
\* at the next epoch
C20_Witness ==
    \E r \in Runs :
        /\ run[r].save = "failed"
        /\ run[r].pc = "uptime"
        /\ run[r].epochId = run[r].iter + 1
        /\ run[r].lastFullyCompletedEpoch = Num(run[r].iter)
        /\ file = FileOther("garbage")
        /\ run[r].lastCompletedEpoch = Num(run[r].iter - 1)

====
